---- MODULE Spec2Model ----
(***************************************************************************)
(* Model of app.py: a rule-based support chatbot behind a Flask /chat      *)
(* endpoint.  Python str values are TLA+ strings (Len, SubSeq and \o act   *)
(* on them character by character), Python dicts are functions whose       *)
(* DOMAIN is the key set ({} is <<>>), and a value that may be None is a    *)
(* sequence of length 0 (None) or 1.                                       *)
(*                                                                         *)
(* Texts are restricted to ASCII: the two emoji of the fixed replies are   *)
(* written (wave) and (thinking), and str.lower / str.strip / \d are       *)
(* modelled on ASCII characters.                                           *)
(***************************************************************************)
EXTENDS Integers, Sequences, FiniteSets, TLC

VARIABLES FAQ_RESPONSES, MOCK_ORDERS, call, result

vars == <<FAQ_RESPONSES, MOCK_ORDERS, call, result>>

(***************************************************************************)
(* String primitives of Python used by the program.                        *)
(***************************************************************************)
CharAt(s, i) == SubSeq(s, i, i)

UpperAlpha == "ABCDEFGHIJKLMNOPQRSTUVWXYZ"

LowerAlpha == "abcdefghijklmnopqrstuvwxyz"

\* The lowercase form of each uppercase letter.
CaseMap ==
    [c \in {CharAt(UpperAlpha, i) : i \in 1..Len(UpperAlpha)} |->
        CharAt(LowerAlpha, CHOOSE i \in 1..Len(UpperAlpha) : CharAt(UpperAlpha, i) = c)]

LowerChar(c) == IF c \in DOMAIN CaseMap THEN CaseMap[c] ELSE c

RECURSIVE lower(_)
\* str.lower(): every cased character replaced by its lowercase form.
lower(s) ==
    IF s = "" THEN ""
    ELSE LowerChar(CharAt(s, 1)) \o lower(SubSeq(s, 2, Len(s)))

\* `sub in s` on str: sub occurs as a contiguous substring of s.
Contains(s, sub) ==
    \E i \in 1..(Len(s) - Len(sub) + 1) : SubSeq(s, i, i + Len(sub) - 1) = sub

Whitespace == {" ", "\t", "\n", "\r", "\f"}

RECURSIVE lstrip(_)
lstrip(s) ==
    IF s # "" /\ CharAt(s, 1) \in Whitespace THEN lstrip(SubSeq(s, 2, Len(s))) ELSE s

RECURSIVE rstrip(_)
rstrip(s) ==
    IF s # "" /\ CharAt(s, Len(s)) \in Whitespace THEN rstrip(SubSeq(s, 1, Len(s) - 1)) ELSE s

\* str.strip(): leading and trailing whitespace removed.
strip(s) == rstrip(lstrip(s))

Digits == {"0", "1", "2", "3", "4", "5", "6", "7", "8", "9"}

IsDigit(c) == c \in Digits

RECURSIVE DigitRunEnd(_, _)
\* Greedy \d+ starting at a digit at position i: the position of its last digit.
DigitRunEnd(s, i) ==
    IF i < Len(s) /\ IsDigit(CharAt(s, i + 1)) THEN DigitRunEnd(s, i + 1) ELSE i

RECURSIVE findall_digits(_, _)
\* re.findall(r"\d+", s) scanning from position i: the non-overlapping matches,
\* left to right, each match greedy.
findall_digits(s, i) ==
    IF i > Len(s) THEN <<>>
    ELSE IF IsDigit(CharAt(s, i))
         THEN LET j == DigitRunEnd(s, i)
              IN  <<SubSeq(s, i, j)>> \o findall_digits(s, j + 1)
         ELSE findall_digits(s, i + 1)

\* dict.get(key): <<value>>, or <<>> for None.
get(d, key) == IF key \in DOMAIN d THEN <<d[key]>> ELSE <<>>

\* dict.get(key, default).
get_default(d, key, default) == IF key \in DOMAIN d THEN d[key] ELSE default

\* Truth value of an optional str: None and "" are falsy.
truthy(opt) == opt # <<>> /\ opt[1] # ""

(***************************************************************************)
(* 1. Predefined FAQ responses, 2. mock order data.                        *)
(***************************************************************************)
\* Variant of the FAQ table: the contact entry stored under another key.
BuiltinFaq_renamed ==
    ("working hours" :> "Our customer support is available 24/7.") @@
    ("return policy" :> "You can return any product within 30 days of delivery.") @@
    ("reset password" :> "To reset your password, go to Settings > Account > Reset Password.") @@
    ("contact us" :> "You can contact us at support@example.com or call +1-234-567-890.")

BuiltinFaq ==
    ("working hours" :> "Our customer support is available 24/7.") @@
    ("return policy" :> "You can return any product within 30 days of delivery.") @@
    ("reset password" :> "To reset your password, go to Settings > Account > Reset Password.") @@
    ("contact" :> "You can contact us at support@example.com or call +1-234-567-890.")

BuiltinOrders ==
    ("1234" :> "Delivered on 25-11-2025") @@
    ("5678" :> "Out for delivery. Expected today.") @@
    ("9999" :> "Order confirmed. Preparing for dispatch.")

(***************************************************************************)
(* 3. Intent detection.                                                    *)
(***************************************************************************)
\* Variant of extract_order_id: the last number instead of the first.
extract_order_id_last(message) ==
    LET numbers == findall_digits(message, 1)
    IN  IF numbers # <<>> THEN [order_id |-> numbers[Len(numbers)]] ELSE <<>>

extract_order_id(message) ==
    LET numbers == findall_digits(message, 1)
    IN  IF numbers # <<>> THEN [order_id |-> numbers[1]] ELSE <<>>

\* Variant of the keyword list: "refund" tested before "return policy".
faq_keywords_reordered ==
    <<"working hours", "timings", "refund", "return policy", "reset password",
      "forgot password", "contact", "email", "phone">>

faq_keywords ==
    <<"working hours", "timings", "return policy", "refund", "reset password",
      "forgot password", "contact", "email", "phone">>

\* Variant of the greeting words: "hey" left out.
greeting_words_short == <<"hi", "hello">>

greeting_words == <<"hi", "hello", "hey">>

\* Variant of detect_intent: the FAQ keywords tested before the track-order rule.
detect_intent_faq_first(message) ==
    LET msg == lower(message)
    IN  IF \E k \in 1..Len(faq_keywords) : Contains(msg, faq_keywords[k])
        THEN LET k == CHOOSE k \in 1..Len(faq_keywords) :
                          /\ Contains(msg, faq_keywords[k])
                          /\ \A j \in 1..(k - 1) : ~Contains(msg, faq_keywords[j])
             IN  <<"faq", [keyword |-> faq_keywords[k]]>>
        ELSE IF Contains(msg, "track") /\ Contains(msg, "order")
        THEN <<"track_order", extract_order_id(msg)>>
        ELSE IF \E w \in 1..Len(greeting_words) : Contains(msg, greeting_words[w])
        THEN <<"greeting", <<>>>>
        ELSE <<"unknown", <<>>>>

\* Returns <<intent, entities>>.
detect_intent(message) ==
    LET msg == lower(message)
    IN  IF Contains(msg, "track") /\ Contains(msg, "order")
        THEN <<"track_order", extract_order_id(msg)>>
        ELSE IF \E k \in 1..Len(faq_keywords) : Contains(msg, faq_keywords[k])
        THEN LET k == CHOOSE k \in 1..Len(faq_keywords) :
                          /\ Contains(msg, faq_keywords[k])
                          /\ \A j \in 1..(k - 1) : ~Contains(msg, faq_keywords[j])
             IN  <<"faq", [keyword |-> faq_keywords[k]]>>
        ELSE IF \E w \in 1..Len(greeting_words) : Contains(msg, greeting_words[w])
        THEN <<"greeting", <<>>>>
        ELSE <<"unknown", <<>>>>

(***************************************************************************)
(* 4. Handlers for intents.                                                *)
(***************************************************************************)
NoFaqInfo == "I'm sorry, I don't have information about that yet."

\* Variant of handle_faq: the keyword is not lowercased.
handle_faq_verbatim(entities) ==
    LET keyword == get_default(entities, "keyword", "")
        key == IF Contains(keyword, "timings") \/ Contains(keyword, "working hours")
               THEN "working hours"
               ELSE IF Contains(keyword, "return policy") \/ Contains(keyword, "refund")
               THEN "return policy"
               ELSE IF Contains(keyword, "reset password") \/ Contains(keyword, "forgot password")
               THEN "reset password"
               ELSE IF Contains(keyword, "contact") \/ Contains(keyword, "email")
                       \/ Contains(keyword, "phone")
               THEN "contact"
               ELSE keyword
        answer == get(FAQ_RESPONSES, key)
    IN  IF truthy(answer) THEN answer[1] ELSE NoFaqInfo

handle_faq(entities) ==
    LET keyword == lower(get_default(entities, "keyword", ""))
        key == IF Contains(keyword, "timings") \/ Contains(keyword, "working hours")
               THEN "working hours"
               ELSE IF Contains(keyword, "return policy") \/ Contains(keyword, "refund")
               THEN "return policy"
               ELSE IF Contains(keyword, "reset password") \/ Contains(keyword, "forgot password")
               THEN "reset password"
               ELSE IF Contains(keyword, "contact") \/ Contains(keyword, "email")
                       \/ Contains(keyword, "phone")
               THEN "contact"
               ELSE keyword
        answer == get(FAQ_RESPONSES, key)
    IN  IF truthy(answer) THEN answer[1] ELSE NoFaqInfo

AskOrderId == "Please provide your order ID to track your order."

\* Variant of handle_track_order: `if status is not None` instead of `if status`.
handle_track_order_present(entities) ==
    LET order_id == get(entities, "order_id")
    IN  IF ~truthy(order_id) THEN AskOrderId
        ELSE LET status == get(MOCK_ORDERS, order_id[1])
             IN  IF status # <<>>
                 THEN "Your order " \o order_id[1] \o " status: " \o status[1]
                 ELSE "I could not find any details for order ID " \o order_id[1]
                      \o ". Please check the ID and try again."

handle_track_order(entities) ==
    LET order_id == get(entities, "order_id")
    IN  IF ~truthy(order_id) THEN AskOrderId
        ELSE LET status == get(MOCK_ORDERS, order_id[1])
             IN  IF truthy(status)
                 THEN "Your order " \o order_id[1] \o " status: " \o status[1]
                 ELSE "I could not find any details for order ID " \o order_id[1]
                      \o ". Please check the ID and try again."

handle_greeting == "Hello! (wave) I am your AI support assistant. How can I help you today?"

\* Variant of handle_ai_fallback: the message is echoed in the reply.
handle_ai_fallback_echo(message) ==
    "I'm not entirely sure about '" \o message \o "' yet (thinking), "
    \o "but I'll note this question for improvement. "
    \o "Meanwhile, could you rephrase or ask about orders, returns, or account support?"

handle_ai_fallback(message) ==
    "I'm not entirely sure about that yet (thinking), "
    \o "but I'll note this question for improvement. "
    \o "Meanwhile, could you rephrase or ask about orders, returns, or account support?"

(***************************************************************************)
(* 5. Main chat logic.  The value is the execution of generate_bot_response:*)
(* its locals intent and entities, the handler its branch called and the   *)
(* string it returned.                                                     *)
(***************************************************************************)
NotUnderstood == "Sorry, I couldn't understand that. Can you please rephrase?"

\* Variant of generate_bot_response: the track_order tag misspelt in the dispatch.
generate_bot_response_typo(user_message) ==
    LET d == detect_intent(user_message)
        intent == d[1]
        entities == d[2]
    IN  IF intent = "faq"
        THEN [intent |-> intent, entities |-> entities, handler |-> "handle_faq",
              ret |-> handle_faq(entities)]
        ELSE IF intent = "track-order"
        THEN [intent |-> intent, entities |-> entities, handler |-> "handle_track_order",
              ret |-> handle_track_order(entities)]
        ELSE IF intent = "greeting"
        THEN [intent |-> intent, entities |-> entities, handler |-> "handle_greeting",
              ret |-> handle_greeting]
        ELSE IF intent = "unknown"
        THEN [intent |-> intent, entities |-> entities, handler |-> "handle_ai_fallback",
              ret |-> handle_ai_fallback(user_message)]
        ELSE [intent |-> intent, entities |-> entities, handler |-> "else",
              ret |-> NotUnderstood]

generate_bot_response(user_message) ==
    LET d == detect_intent(user_message)
        intent == d[1]
        entities == d[2]
    IN  IF intent = "faq"
        THEN [intent |-> intent, entities |-> entities, handler |-> "handle_faq",
              ret |-> handle_faq(entities)]
        ELSE IF intent = "track_order"
        THEN [intent |-> intent, entities |-> entities, handler |-> "handle_track_order",
              ret |-> handle_track_order(entities)]
        ELSE IF intent = "greeting"
        THEN [intent |-> intent, entities |-> entities, handler |-> "handle_greeting",
              ret |-> handle_greeting]
        ELSE IF intent = "unknown"
        THEN [intent |-> intent, entities |-> entities, handler |-> "handle_ai_fallback",
              ret |-> handle_ai_fallback(user_message)]
        ELSE [intent |-> intent, entities |-> entities, handler |-> "else",
              ret |-> NotUnderstood]

(***************************************************************************)
(* 6. Flask routes.                                                        *)
(***************************************************************************)
PleaseType == "Please type a message so I can help you."

\* jsonify({"reply": text})
jsonify_reply(text) == [reply |-> text]

\* Variant of chat: the stripped message is passed on.
chat_stripped(data) ==
    LET user_message == strip(get_default(data, "message", ""))
    IN  IF user_message = ""
        THEN [passed |-> <<>>, response |-> jsonify_reply(PleaseType)]
        ELSE LET run == generate_bot_response(user_message)
             IN  [passed |-> <<user_message>>, run |-> run,
                  response |-> jsonify_reply(run.ret)]

\* The execution of chat() on the JSON body `data`: the messages it passed to
\* generate_bot_response (none or one), that call's execution, and the response.
chat(data) ==
    LET user_message == get_default(data, "message", "")
    IN  IF strip(user_message) = ""
        THEN [passed |-> <<>>, response |-> jsonify_reply(PleaseType)]
        ELSE LET run == generate_bot_response(user_message)
             IN  [passed |-> <<user_message>>, run |-> run,
                  response |-> jsonify_reply(run.ret)]

index == [passed |-> <<>>, response |-> [template |-> "index.html"]]

(***************************************************************************)
(* Inputs.  A message is the concatenation of at most MaxWords fragments   *)
(* of Vocabulary; a JSON body carries a str message or no message.         *)
(***************************************************************************)
MaxWords == 3

Vocabulary ==
    {"track", "order", "TRACK", " ", "\t", "s", "asdlkj", "1234", "00042",
     "working hours", "timings", "return policy", "refund", "Refund", "reset password",
     "forgot password", "contact", "email", "phone", "hi", "hello", "hey"}

RECURSIVE Texts(_)
Texts(n) ==
    IF n = 0 THEN {""}
    ELSE LET shorter == Texts(n - 1)
         IN  shorter \cup {t \o w : t \in shorter, w \in Vocabulary}

Messages == Texts(MaxWords)

Requests == {<<>>} \cup {[message |-> m] : m \in Messages}

(***************************************************************************)
(* The program: the module-level tables are built once and never written;  *)
(* a request is handled in one synchronous step and its response is then  *)
(* sent, which ends the request (nothing is kept between requests).        *)
(***************************************************************************)
\* No request is being handled.
Idle == [fn |-> "none", arg |-> <<>>]

Init ==
    /\ FAQ_RESPONSES = BuiltinFaq
    /\ MOCK_ORDERS = BuiltinOrders
    /\ call = Idle
    /\ result = <<>>

\* The response has been sent (or the called function has returned).
Return ==
    /\ call # Idle
    /\ call' = Idle
    /\ result' = <<>>
    /\ UNCHANGED <<FAQ_RESPONSES, MOCK_ORDERS>>

PostChat(data) ==
    /\ call = Idle
    /\ call' = [fn |-> "chat", arg |-> data]
    /\ result' = chat(data)
    /\ UNCHANGED <<FAQ_RESPONSES, MOCK_ORDERS>>

GetIndex ==
    /\ call = Idle
    /\ call' = [fn |-> "index", arg |-> <<>>]
    /\ result' = index
    /\ UNCHANGED <<FAQ_RESPONSES, MOCK_ORDERS>>

\* A request arrives only at an idle worker (the guard stands before the
\* choice of the request).
Next ==
    \/ call = Idle /\ \E data \in Requests : PostChat(data)
    \/ GetIndex
    \/ Return

Spec == Init /\ [][Next]_vars
(***************************************************************************)
(* extract_order_id applied on its own to every message.                   *)
(***************************************************************************)
CallExtractOrderId(message) ==
    /\ call = Idle
    /\ call' = [fn |-> "extract_order_id", arg |-> message]
    /\ result' = [ret |-> extract_order_id(message)]
    /\ UNCHANGED <<FAQ_RESPONSES, MOCK_ORDERS>>

NextEntity ==
    \/ call = Idle /\ \E message \in Messages : CallExtractOrderId(message)
    \/ Return

SpecEntity == Init /\ [][NextEntity]_vars

(***************************************************************************)
(* The two table-reading handlers applied on their own.  A handler is a    *)
(* function of its entities dict and of the table it reads when called:    *)
(* both are drawn from bounded sets.  MOCK_ORDERS stands for an order API  *)
(* ("Simulate API call by looking up in MOCK_ORDERS"), so the stored       *)
(* statuses are data of the environment.                                   *)
(***************************************************************************)
FaqTables ==
    {BuiltinFaq,
     ("shipping" :> "We ship worldwide.") @@ BuiltinFaq,
     ("contact" :> "") @@ BuiltinFaq}

OrderTables ==
    {BuiltinOrders,
     ("42" :> "") @@ BuiltinOrders}

HandlerKeywords ==
    {faq_keywords[k] : k \in 1..Len(faq_keywords)}
        \cup {"", "shipping", "SHIPPING", "Refund", "refund timings", "delivery"}

FaqEntities == {<<>>} \cup {[keyword |-> kw] : kw \in HandlerKeywords}

OrderIds == {"", "1234", "01234", "123", "5678", "0000", "42"}

OrderEntities == {<<>>} \cup {[order_id |-> id] : id \in OrderIds}

InitHandlers ==
    /\ FAQ_RESPONSES \in FaqTables
    /\ MOCK_ORDERS \in OrderTables
    /\ call = Idle
    /\ result = <<>>

CallHandleFaq(entities) ==
    /\ call = Idle
    /\ call' = [fn |-> "handle_faq", arg |-> entities]
    /\ result' = [ret |-> handle_faq(entities)]
    /\ UNCHANGED <<FAQ_RESPONSES, MOCK_ORDERS>>

CallHandleTrackOrder(entities) ==
    /\ call = Idle
    /\ call' = [fn |-> "handle_track_order", arg |-> entities]
    /\ result' = [ret |-> handle_track_order(entities)]
    /\ UNCHANGED <<FAQ_RESPONSES, MOCK_ORDERS>>

NextHandlers ==
    \/ \E entities \in FaqEntities : CallHandleFaq(entities)
    \/ \E entities \in OrderEntities : CallHandleTrackOrder(entities)
    \/ Return

SpecHandlers == InitHandlers /\ [][NextHandlers]_vars
(***************************************************************************)
(* Properties.  Vocabulary of the statements.                              *)
(***************************************************************************)
\* generate_bot_response was called by the chat request of this state.
Reached == call.fn = "chat" /\ result.passed # <<>>

TheMessage == result.passed[1]

TheRun == result.run

\* The lowercased text of the message passed to generate_bot_response.
Lowered == lower(TheMessage)

\* The rules below are stated on the lowercased text lm of a message.
TrackRule(lm) == Contains(lm, "track") /\ Contains(lm, "order")

PriorityList ==
    <<"working hours", "timings", "return policy", "refund", "reset password",
      "forgot password", "contact", "email", "phone">>

HasKeyword(lm) == \E k \in 1..Len(PriorityList) : Contains(lm, PriorityList[k])

FirstKeyword(lm) ==
    PriorityList[CHOOSE k \in 1..Len(PriorityList) :
                    /\ Contains(lm, PriorityList[k])
                    /\ \A j \in 1..(k - 1) : ~Contains(lm, PriorityList[j])]

HasGreeting(lm) ==
    \/ Contains(lm, "hi")
    \/ Contains(lm, "hello")
    \/ Contains(lm, "hey")

\* C1: a message whose lowercased text contains "track" and "order" is
\* classified track_order, whatever else it contains.
Thm_C1 == Reached /\ TrackRule(Lowered) => TheRun.intent = "track_order"

Wit_C1 ==
    /\ Reached
    /\ Contains(TheMessage, "TRACK") /\ Contains(TheMessage, "order")
    /\ HasKeyword(Lowered)
    /\ TheRun.intent = "track_order"

\* C2 as stated: every message containing a FAQ keyword is classified faq
\* with the first keyword of the priority list that occurs in it.
Orig_C2 ==
    Reached =>
        LET lm == Lowered
        IN  HasKeyword(lm) =>
                /\ TheRun.intent = "faq"
                /\ TheRun.entities = [keyword |-> FirstKeyword(lm)]

\* C2 amended: every message containing a FAQ keyword and not satisfying the
\* track-order rule is classified faq with the first keyword of the priority
\* list that occurs in it.
Thm_C2 ==
    Reached =>
        LET lm == Lowered
        IN  HasKeyword(lm) /\ ~TrackRule(lm) =>
                /\ TheRun.intent = "faq"
                /\ TheRun.entities = [keyword |-> FirstKeyword(lm)]

Wit_C2 ==
    /\ Reached
    /\ Contains(Lowered, "phone") /\ Contains(Lowered, "refund")
    /\ ~TrackRule(Lowered)
    /\ TheRun.entities = [keyword |-> "refund"]

FallbackText == handle_ai_fallback("")

\* C3: a message matching no rule is classified unknown with no entities and
\* answered with the one fixed fallback text.
Thm_C3 ==
    Reached =>
        LET lm == Lowered
        IN  ~TrackRule(lm) /\ ~HasKeyword(lm) /\ ~HasGreeting(lm) =>
                /\ TheRun.intent = "unknown"
                /\ TheRun.entities = <<>>
                /\ TheRun.handler = "handle_ai_fallback"
                /\ TheRun.ret = FallbackText
                /\ result.response = [reply |-> FallbackText]

Wit_C3 ==
    /\ Reached
    /\ Contains(TheMessage, "asdlkj")
    /\ TheRun.intent = "unknown"
    /\ result.response = [reply |-> FallbackText]

HasDigit(m) == \E i \in 1..Len(m) : IsDigit(CharAt(m, i))

\* The leftmost maximal run of digits of a message that has a digit.
FirstRun(m) ==
    LET i == CHOOSE i \in 1..Len(m) :
                 IsDigit(CharAt(m, i)) /\ \A k \in 1..(i - 1) : ~IsDigit(CharAt(m, k))
        j == CHOOSE j \in i..Len(m) :
                 /\ \A k \in i..j : IsDigit(CharAt(m, k))
                 /\ j = Len(m) \/ ~IsDigit(CharAt(m, j + 1))
    IN  SubSeq(m, i, j)

\* C4: extract_order_id returns the leftmost maximal digit run as text, and
\* the empty entity set exactly when the message has no digit.
Thm_C4 ==
    call.fn = "extract_order_id" =>
        /\ (result.ret = <<>>) <=> ~HasDigit(call.arg)
        /\ HasDigit(call.arg) => result.ret = [order_id |-> FirstRun(call.arg)]

Wit_C4 ==
    /\ call.fn = "extract_order_id"
    /\ call.arg = "00042 1234"
    /\ result.ret = [order_id |-> "00042"]

StatusLine(id, status) == "Your order " \o id \o " status: " \o status

NotFoundLine(id) ==
    "I could not find any details for order ID " \o id
    \o ". Please check the ID and try again."

TopicGroups ==
    << <<{"timings", "working hours"}, "working hours">>,
       <<{"return policy", "refund"}, "return policy">>,
       <<{"reset password", "forgot password"}, "reset password">>,
       <<{"contact", "email", "phone"}, "contact">> >>

InGroup(kw, g) == \E p \in TopicGroups[g][1] : Contains(kw, p)

\* The canonical topic of a keyword, or the keyword itself.
TopicKey(kw) ==
    IF \E g \in 1..Len(TopicGroups) : InGroup(kw, g)
    THEN TopicGroups[CHOOSE g \in 1..Len(TopicGroups) :
                         InGroup(kw, g) /\ \A h \in 1..(g - 1) : ~InGroup(kw, h)][2]
    ELSE kw

IsBlank(m) == \A i \in 1..Len(m) : CharAt(m, i) \in Whitespace

SentMessage == IF "message" \in DOMAIN call.arg THEN call.arg.message ELSE ""

\* C7: a blank message gets the fixed prompt without generate_bot_response
\* being called; any other message is passed to it unmodified and its return
\* value is the reply.
Thm_C7 ==
    call.fn = "chat" =>
        IF IsBlank(SentMessage)
        THEN /\ result.passed = <<>>
             /\ result.response = [reply |-> PleaseType]
        ELSE /\ result.passed = <<SentMessage>>
             /\ result.response = [reply |-> generate_bot_response(SentMessage).ret]

Wit_C7 ==
    /\ call.fn = "chat"
    /\ call.arg = [message |-> " \t"]
    /\ result.passed = <<>>
    /\ result.response = [reply |-> PleaseType]

IsDigitString(t) == t # "" /\ \A i \in 1..Len(t) : IsDigit(CharAt(t, i))

\* C8: detection yields one of the four tags with an entity set valid for
\* it, the matching handler runs, and the catch-all else branch of
\* generate_bot_response is never taken.
Thm_C8 ==
    Reached =>
        /\ TheRun.intent \in {"faq", "track_order", "greeting", "unknown"}
        /\ TheRun.intent = "faq" =>
              /\ \E k \in 1..Len(PriorityList) : TheRun.entities = [keyword |-> PriorityList[k]]
              /\ TheRun.handler = "handle_faq"
        /\ TheRun.intent = "track_order" =>
              /\ \/ TheRun.entities = <<>>
                 \/ /\ DOMAIN TheRun.entities = {"order_id"}
                    /\ IsDigitString(TheRun.entities.order_id)
              /\ TheRun.handler = "handle_track_order"
        /\ TheRun.intent = "greeting" =>
              TheRun.entities = <<>> /\ TheRun.handler = "handle_greeting"
        /\ TheRun.intent = "unknown" =>
              TheRun.entities = <<>> /\ TheRun.handler = "handle_ai_fallback"
        /\ TheRun.handler # "else"
        /\ TheRun.ret # NotUnderstood

Wit_C8 ==
    /\ Reached
    /\ TheRun.intent = "track_order"
    /\ TheRun.entities = [order_id |-> "00042"]
    /\ TheRun.handler = "handle_track_order"

\* C9: without the track-order rule and without a FAQ keyword, a message is a
\* greeting exactly when its lowercased text contains "hi", "hello" or "hey"
\* as a substring; with either of them, a greeting word changes nothing.
Thm_C9 ==
    Reached =>
        LET lm == Lowered
        IN  /\ ~TrackRule(lm) /\ ~HasKeyword(lm) =>
                  (HasGreeting(lm) <=>
                      /\ TheRun.intent = "greeting"
                      /\ TheRun.ret = handle_greeting
                      /\ result.response = [reply |-> handle_greeting])
            /\ HasGreeting(lm) /\ (TrackRule(lm) \/ HasKeyword(lm)) =>
                  TheRun.intent # "greeting"

Wit_C9 ==
    /\ Reached
    /\ TheMessage = "shi"
    /\ TheRun.intent = "greeting"
    /\ result.response = [reply |-> handle_greeting]

CanonicalTopic ==
    ("working hours" :> "working hours") @@ ("timings" :> "working hours") @@
    ("return policy" :> "return policy") @@ ("refund" :> "return policy") @@
    ("reset password" :> "reset password") @@ ("forgot password" :> "reset password") @@
    ("contact" :> "contact") @@ ("email" :> "contact") @@ ("phone" :> "contact")

\* C10: with the built-in FAQ table, a message classified faq is answered
\* with the stored, non-empty text of its keyword's canonical topic, never
\* with the no-information message.
Thm_C10 ==
    Reached /\ TheRun.intent = "faq" =>
        LET kw == TheRun.entities.keyword
        IN  /\ kw \in DOMAIN CanonicalTopic
            /\ CanonicalTopic[kw] \in DOMAIN FAQ_RESPONSES
            /\ FAQ_RESPONSES[CanonicalTopic[kw]] # ""
            /\ TheRun.ret = FAQ_RESPONSES[CanonicalTopic[kw]]
            /\ TheRun.ret # NoFaqInfo
            /\ result.response = [reply |-> FAQ_RESPONSES[CanonicalTopic[kw]]]

Wit_C10 ==
    /\ Reached
    /\ TheRun.intent = "faq"
    /\ TheRun.entities = [keyword |-> "phone"]
    /\ TheRun.ret = FAQ_RESPONSES["contact"]
====
